---- MODULE Spec2Model ----
(***************************************************************************)
(* Model of the server key API of dendrite                                 *)
(* (serverkeyapi/internal/api.go): ServerKeyAPI.FetchKeys resolves a batch *)
(* of key lookups through the server's own key, the key database and an    *)
(* ordered list of key fetchers; ServerKeyAPI.StoreKeys hands keys to the  *)
(* key database.                                                           *)
(*                                                                         *)
(* One FetchKeys call is a sequence of steps, one per blocking call it     *)
(* makes (the database fetch, each fetcher's fetch, each store); the       *)
(* clock and the caller's cancellation move between the steps.             *)
(*                                                                         *)
(* The module also models the key change consumer of the sync API          *)
(* (syncapi/consumers/keychange.go): Start, onMessage and updateOffset,    *)
(* with the onMessage calls of the partitions and Start running side by    *)
(* side.                                                                   *)
(***************************************************************************)
EXTENDS Integers, FiniteSets, Sequences, Bags, TLC

(***************************************************************************)
(* Bounds of the model.                                                    *)
(***************************************************************************)
\* Number of fetchers configured in OurKeyRing.KeyFetchers.
NumFetchers == 2
\* A call starts at ClockStart, and time.Now() reads no more than MaxClock
\* while it runs.
ClockStart == 3
MaxClock == 4

(***************************************************************************)
(* Configuration of the ServerKeyAPI (api.go:14-24).                       *)
(***************************************************************************)
ServerName == "self"
ServerPublicKey == "ownkey"
ServerKeyValidity == 2

\* gomatrixserverlib.PublicKeyNotExpired: the ExpiredTS of a key that has
\* not been expired.
PublicKeyNotExpired == 0

\* The nil error.
Nil == "nil"

(***************************************************************************)
(* Lookup requests and results.  A map of the program is a function whose  *)
(* domain is its key set.  The Timestamp a request maps to is never read   *)
(* by this code, so the requests map is modelled by its key set.           *)
(***************************************************************************)
ReqS == [ServerName |-> ServerName, KeyID |-> "k1"]
ReqA == [ServerName |-> "remote", KeyID |-> "k1"]
ReqB == [ServerName |-> "remote", KeyID |-> "k2"]
Requests == {ReqS, ReqA, ReqB}

\* Results a database or a fetcher can hold: one whose validity has passed,
\* one that is valid, and an expired one with the same ValidUntilTS.
ResOld == [Key |-> "k", ExpiredTS |-> PublicKeyNotExpired, ValidUntilTS |-> 1]
ResNew == [Key |-> "k", ExpiredTS |-> PublicKeyNotExpired, ValidUntilTS |-> MaxClock + 1]
ResExp == [Key |-> "k", ExpiredTS |-> 2, ValidUntilTS |-> MaxClock + 1]
Pool == {ResOld, ResNew, ResExp}

\* All maps from a subset of the keys ks to values of vs.
Maps(ks, vs) == UNION {[d -> vs] : d \in SUBSET ks}

EmptyMap == << >>

\* The map a call returns: nil, or the map m.
NilMap == [isNil |-> TRUE, entries |-> EmptyMap]
MapOf(m) == [isNil |-> FALSE, entries |-> m]

\* What the database fetch of the call in progress returned: nothing yet,
\* an error, or the map m.
DbNotAsked == [status |-> "none", entries |-> EmptyMap]
DbError == [status |-> "error", entries |-> EmptyMap]
DbResults(m) == [status |-> "ok", entries |-> m]

\* No call to keep in mind.
NoCall == [known |-> FALSE, batch |-> {}, now |-> 0]

\* What a fetcher can return and what a caller can hand to StoreKeys: any
\* results for any of the requests (for the server's own key, ResNew).
KeyMaps == {m \in Maps(Requests, Pool) : \A req \in DOMAIN m : req = ReqS => m[req] = ResNew}

\* The batches a caller can ask for, and the times time.Now() can read.
Batches == (SUBSET Requests) \ {{}}
StartTimes == {ClockStart}
Times == ClockStart .. MaxClock

\* m with the entries of m2 written over it.
Merge(m, m2) ==
    [k \in DOMAIN m \cup DOMAIN m2 |-> IF k \in DOMAIN m2 THEN m2[k] ELSE m[k]]

Restrict(m, ks) == [k \in DOMAIN m \cap ks |-> m[k]]

\* seen, brought up to date with the results returned.
SeenAfter(seen, returned) ==
    [req \in DOMAIN seen \cup DOMAIN returned |->
        IF req \notin DOMAIN returned THEN seen[req]
        ELSE IF req \notin DOMAIN seen THEN returned[req].ValidUntilTS
        ELSE IF returned[req].ValidUntilTS > seen[req] THEN returned[req].ValidUntilTS
        ELSE seen[req]]

\* PublicKeyLookupResult.WasValidAt(atTs, strict): within the validity
\* window and, when the key has been expired, before its expiry.
WasValidAt(res, atTs, strict) ==
    IF res.ExpiredTS # PublicKeyNotExpired
    THEN atTs < res.ExpiredTS
    ELSE (strict => atTs < res.ValidUntilTS)

VARIABLES
    db,               \* the contents of OurKeyRing.KeyDatabase
    pc,               \* where the call in progress stands
    callerCancelled,  \* whether the caller's context has been cancelled
    ctx,              \* the context the call in progress works under
    now,              \* FetchKeys' now
    requests,         \* FetchKeys' requests (the pending set)
    callerRequests,   \* the map the caller handed to FetchKeys, as the caller sees it
    seenValidUntil,   \* the greatest ValidUntilTS the database and the fetchers
                      \* have returned for each request in the call in progress
    origRequests,     \* FetchKeys' origRequests
    results,          \* FetchKeys' results
    fetcherIdx,       \* position of the range over KeyFetchers
    fetcherResults,   \* handleFetcherKeys' fetcherResults
    storeResults,     \* the map handed to KeyDatabase.StoreKeys
    fetchLog,         \* the fetcher invocations of the call in progress
    storeLog,         \* the store calls of the call in progress
    dbAsked,          \* the requests the database fetch was called with
    dbReturned,       \* what the database fetch returned
    retResults,       \* the map the call returned
    retErr,           \* the error the call returned
    prev              \* the last FetchKeys call, when it left every request valid

apiVars == <<db, pc, callerCancelled, ctx, now, requests, origRequests,
             results, fetcherIdx, storeResults, fetchLog, storeLog, dbAsked,
             dbReturned, retResults, retErr, fetcherResults, prev, callerRequests,
             seenValidUntil>>

callVars == <<now, requests, origRequests, results, fetcherIdx, fetcherResults,
              fetchLog, storeLog, dbAsked, dbReturned, callerRequests,
              seenValidUntil>>

\* The OutputKeyChangeEventConsumer (keychange.go:34-43) and its callers.
VARIABLES
    partitionToOffset,    \* s.partitionToOffset
    partitionToOffsetMu,  \* who holds s.partitionToOffsetMu
    startPc,              \* where the call of Start stands
    offsets,              \* Start's offsets
    startErr,             \* Start's err
    msgPc,                \* where the onMessage call of each partition stands
    msg,                  \* onMessage's msg, by partition
    queryRes,             \* what QuerySharedUsers returned, by partition
    notified,             \* the OnNewKeyChange calls of the onMessage call, by partition
    onMessageErr,         \* the error the onMessage call returns, by partition
    delivered             \* the offset of the last message delivered, by partition

consumerVars == <<partitionToOffset, partitionToOffsetMu, startPc, offsets, startErr,
                  msgPc, msg, queryRes, notified, onMessageErr, delivered>>

vars == <<apiVars, consumerVars>>

(***************************************************************************)
(* Contexts.  context.Background() is never cancelled; the caller's        *)
(* context is cancelled when the caller gives up.                          *)
(***************************************************************************)
Background == "background"
CallerCtx == "caller"

CtxDone(c) == c = CallerCtx /\ callerCancelled

\* FetchKeys ignores the context it is given (api.go:49) and works under
\* context.Background() (api.go:54).
FetchKeysCtxCallers(callerCtx) == callerCtx
FetchKeysCtx(callerCtx) == Background

\* StoreKeys does the same (api.go:37, 42).
StoreKeysCtx(callerCtx) == Background

(***************************************************************************)
(* The key database (external): a store keyed by request.  A fetch returns *)
(* what it holds for the requests asked, a store writes the entries given. *)
(***************************************************************************)
DatabaseFetchKeys(d, reqs) == Restrict(d, reqs)
DatabaseStoreKeys(d, entries) == Merge(d, entries)

(***************************************************************************)
(* The map FetchKeys works on.  requests is the map the caller handed in   *)
(* (api.go:50): a Go map is a reference, and FetchKeys hands that very map *)
(* to its stages (api.go:64, 69, 81), which delete from it.  The copy that *)
(* FetchKeys takes, origRequests (api.go:57-60), is the one left alone.    *)
(***************************************************************************)
CallersMapUntouched(callers, reqs) == callers
\* The caller's map after a stage has left reqs in requests.
CallersMapAfter(callers, reqs) == reqs

(***************************************************************************)
(* handleLocalKeys (api.go:116-138).                                       *)
(***************************************************************************)
LocalRequests(reqs) == {req \in reqs : req.ServerName = ServerName}

LocalResultNoValidity(t) ==
    [Key |-> ServerPublicKey, ExpiredTS |-> PublicKeyNotExpired, ValidUntilTS |-> t]
LocalResult(t) ==
    [Key |-> ServerPublicKey,
     ExpiredTS |-> PublicKeyNotExpired,
     ValidUntilTS |-> t + ServerKeyValidity]

\* t is what time.Now() reads at api.go:134.
handleLocalKeys(t) ==
    /\ pc = "local"
    /\ requests' = requests \ LocalRequests(requests)
    /\ results' = Merge(results, [req \in LocalRequests(requests) |-> LocalResult(t)])
    /\ pc' = "database"
    /\ UNCHANGED <<db, callerCancelled, ctx, now, origRequests, fetcherIdx,
                   fetcherResults, storeResults, fetchLog, storeLog, dbAsked,
                   dbReturned, retResults, retErr, prev>>
    /\ callerRequests' = CallersMapAfter(callerRequests, requests')
    /\ UNCHANGED seenValidUntil
    /\ UNCHANGED consumerVars

(***************************************************************************)
(* FetchKeys, entry (api.go:48-60): the caller hands in a non-empty batch. *)
(***************************************************************************)
\* t is what time.Now() reads at api.go:55.
FetchKeysBegin(batch, t) ==
    /\ pc = "idle"
    /\ ctx' = FetchKeysCtx(CallerCtx)
    /\ now' = t
    /\ results' = EmptyMap
    /\ origRequests' = batch
    /\ requests' = batch
    /\ pc' = "local"
    /\ UNCHANGED <<db, callerCancelled, fetcherIdx, fetcherResults, storeResults,
                   fetchLog, storeLog, dbAsked, dbReturned, retResults, retErr, prev>>
    /\ callerRequests' = batch
    /\ UNCHANGED seenValidUntil
    /\ UNCHANGED consumerVars

(***************************************************************************)
(* handleDatabaseKeys (api.go:142-172), called at api.go:69.               *)
(***************************************************************************)
DatabaseValidWhenFound(dbResults, t) == DOMAIN dbResults
DatabaseValid(dbResults, t) ==
    {req \in DOMAIN dbResults : WasValidAt(dbResults[req], t, TRUE)}

handleDatabaseKeysOk ==
    /\ pc = "database"
    /\ ~CtxDone(ctx)
    /\ LET dbResults == DatabaseFetchKeys(db, requests)
       IN  /\ results' = Merge(results, dbResults)
           /\ requests' = requests \ DatabaseValid(dbResults, now)
           /\ dbReturned' = DbResults(dbResults)
    /\ dbAsked' = requests
    /\ fetcherIdx' = 1
    /\ pc' = "fetchers"
    /\ UNCHANGED <<db, callerCancelled, ctx, now, origRequests, fetcherResults,
                   storeResults, fetchLog, storeLog, retResults, retErr, prev>>
    /\ callerRequests' = CallersMapAfter(callerRequests, requests')
    /\ seenValidUntil' = SeenAfter(seenValidUntil, dbReturned'.entries)
    /\ UNCHANGED consumerVars

\* What FetchKeys does with an error of handleDatabaseKeys (api.go:69-71):
\* it returns.
AfterDatabaseErrorGoesOn == "fetchers"
AfterDatabaseError == "done"

\* The database fetch fails (api.go:150-152): FetchKeys returns nil and the
\* error (api.go:70).
handleDatabaseKeysErr ==
    /\ pc = "database"
    /\ dbAsked' = requests
    /\ dbReturned' = DbError
    /\ pc' = AfterDatabaseError
    /\ fetcherIdx' = 1
    /\ retResults' = IF AfterDatabaseError = "done" THEN NilMap ELSE retResults
    /\ retErr' = IF AfterDatabaseError = "done" THEN "database" ELSE retErr
    /\ UNCHANGED <<db, callerCancelled, ctx, now, requests, origRequests, results,
                   fetcherResults, storeResults, fetchLog, storeLog, prev>>
    /\ UNCHANGED callerRequests
    /\ UNCHANGED seenValidUntil
    /\ UNCHANGED consumerVars

(***************************************************************************)
(* handleFetcherKeys (api.go:176-250), called from the range over the      *)
(* fetchers (api.go:76-89).                                                *)
(***************************************************************************)
\* The context the fetcher is called with (api.go:188): ctx with a
\* 30-second timeout; running into the timeout is one of the fetcher's errors.
FetcherCtxCallers(c) == CallerCtx
FetcherCtx(c) == c

\* The entries of the fetcher's results that go to the database
\* (api.go:203-221).
StoreResultsOfAnyServer(res, fetched) ==
    LET staged == {req \in DOMAIN fetched :
                      req \in DOMAIN res =>
                          fetched[req].ValidUntilTS > res[req].ValidUntilTS}
    IN  [req \in staged |-> fetched[req]]
StoreResultsOfUnseen(res, fetched) ==
    LET staged == {req \in DOMAIN fetched :
                      req.ServerName # ServerName /\ req \notin DOMAIN res}
    IN  [req \in staged |-> fetched[req]]
StoreResultsOfNotOlder(res, fetched) ==
    LET staged == {req \in DOMAIN fetched :
                      /\ req.ServerName # ServerName
                      /\ (req \in DOMAIN res =>
                            fetched[req].ValidUntilTS >= res[req].ValidUntilTS)}
    IN  [req \in staged |-> fetched[req]]
StoreResultsOf(res, fetched) ==
    LET staged == {req \in DOMAIN fetched :
                      /\ req.ServerName # ServerName
                      /\ (req \in DOMAIN res =>
                            fetched[req].ValidUntilTS > res[req].ValidUntilTS)}
    IN  [req \in staged |-> fetched[req]]

\* The results map after the fetcher's results (api.go:225).
ResultsAfterKeepingNewer(res, fetched) ==
    [req \in DOMAIN res \cup DOMAIN fetched |->
        IF req \notin DOMAIN fetched THEN res[req]
        ELSE IF req \notin DOMAIN res THEN fetched[req]
        ELSE IF fetched[req].ValidUntilTS > res[req].ValidUntilTS THEN fetched[req]
        ELSE res[req]]
ResultsAfterOnlyFetched(res, fetched) == fetched
ResultsAfter(res, fetched) == Merge(res, fetched)

\* The requests left after the fetcher's results (api.go:229-231).
RequestsAfterWhenFound(reqs, fetched, t) == reqs \ DOMAIN fetched
RequestsAfter(reqs, fetched, t) ==
    reqs \ {req \in DOMAIN fetched : WasValidAt(fetched[req], t, TRUE)}

\* The range over the fetchers goes on (api.go:76-80).
FetcherLoopGoesOnWhenEmpty == fetcherIdx <= NumFetchers
FetcherLoopGoesOn == fetcherIdx <= NumFetchers /\ requests # {}

\* What FetchKeys does with an error of handleFetcherKeys (api.go:83-88):
\* it logs the error and continues with the next fetcher.
AfterFetcherErrorReturns == "done"
AfterFetcherError == "fetchers"

\* The fetcher returns an error, or runs into the timeout (api.go:192-195).
handleFetcherKeysFetchErr ==
    /\ pc = "fetchers"
    /\ FetcherLoopGoesOn
    /\ fetchLog' = Append(fetchLog,
                          [fetcher |-> fetcherIdx, pending |-> requests, err |-> TRUE])
    /\ fetcherIdx' = fetcherIdx + 1
    /\ pc' = AfterFetcherError
    /\ retResults' = IF AfterFetcherError = "done" THEN NilMap ELSE retResults
    /\ retErr' = IF AfterFetcherError = "done" THEN "fetcher" ELSE retErr
    /\ UNCHANGED <<db, callerCancelled, ctx, now, requests, origRequests, results,
                   fetcherResults, storeResults, storeLog, dbAsked, dbReturned, prev>>
    /\ UNCHANGED callerRequests
    /\ UNCHANGED seenValidUntil
    /\ UNCHANGED consumerVars

\* The fetcher returns fetched; it is worked into results and requests, and
\* storeResults is handed to the database (api.go:192-235).
handleFetcherKeysFetched(fetched) ==
    /\ pc = "fetchers"
    /\ FetcherLoopGoesOn
    /\ ~CtxDone(FetcherCtx(ctx))
    /\ fetchLog' = Append(fetchLog,
                          [fetcher |-> fetcherIdx, pending |-> requests, err |-> FALSE])
    /\ fetcherResults' = fetched
    /\ storeResults' = StoreResultsOf(results, fetched)
    /\ results' = ResultsAfter(results, fetched)
    /\ requests' = RequestsAfter(requests, fetched, now)
    /\ pc' = "store"
    /\ UNCHANGED <<db, callerCancelled, ctx, now, origRequests, fetcherIdx, storeLog,
                   dbAsked, dbReturned, retResults, retErr, prev>>
    /\ callerRequests' = CallersMapAfter(callerRequests, requests')
    /\ seenValidUntil' = SeenAfter(seenValidUntil, fetched)
    /\ UNCHANGED consumerVars

\* The store succeeds; handleFetcherKeys returns nil (api.go:235, 249).
handleFetcherKeysStored ==
    /\ pc = "store"
    /\ ~CtxDone(ctx)
    /\ db' = DatabaseStoreKeys(db, storeResults)
    /\ storeLog' = Append(storeLog, [fetcher |-> fetcherIdx, err |-> FALSE])
    /\ storeResults' = EmptyMap
    /\ fetcherResults' = EmptyMap
    /\ fetcherIdx' = fetcherIdx + 1
    /\ pc' = "fetchers"
    /\ UNCHANGED <<callerCancelled, ctx, now, requests, origRequests, results,
                   fetchLog, dbAsked, dbReturned, retResults, retErr, prev>>
    /\ UNCHANGED callerRequests
    /\ UNCHANGED seenValidUntil
    /\ UNCHANGED consumerVars

\* The store fails; handleFetcherKeys returns the wrapped error
\* (api.go:235-241).
handleFetcherKeysStoreErr ==
    /\ pc = "store"
    /\ storeLog' = Append(storeLog, [fetcher |-> fetcherIdx, err |-> TRUE])
    /\ storeResults' = EmptyMap
    /\ fetcherResults' = EmptyMap
    /\ fetcherIdx' = fetcherIdx + 1
    /\ pc' = AfterFetcherError
    /\ retResults' = IF AfterFetcherError = "done" THEN NilMap ELSE retResults
    /\ retErr' = IF AfterFetcherError = "done" THEN "store" ELSE retErr
    /\ UNCHANGED <<db, callerCancelled, ctx, now, requests, origRequests, results,
                   fetchLog, dbAsked, dbReturned, prev>>
    /\ UNCHANGED callerRequests
    /\ UNCHANGED seenValidUntil
    /\ UNCHANGED consumerVars

(***************************************************************************)
(* FetchKeys, the check that every request was satisfied (api.go:91-108).  *)
(***************************************************************************)
\* The requests the check runs over (api.go:93).
CheckedRequests == origRequests

UnsatisfiedWhenEmpty(res) == IF DOMAIN res = {} THEN CheckedRequests ELSE {}
\* The requests of the batch that res holds nothing for (api.go:93-94).
Unsatisfied(res) == {req \in CheckedRequests : req \notin DOMAIN res}

FetchKeysCheck ==
    /\ pc = "fetchers"
    /\ ~FetcherLoopGoesOn
    /\ retResults' = MapOf(results)
    /\ retErr' = IF Unsatisfied(results) # {} THEN "unsatisfied" ELSE Nil
    /\ pc' = "done"
    /\ UNCHANGED <<db, callerCancelled, ctx, now, requests, origRequests, results,
                   fetcherIdx, fetcherResults, storeResults, fetchLog, storeLog,
                   dbAsked, dbReturned, prev>>
    /\ UNCHANGED callerRequests
    /\ UNCHANGED seenValidUntil
    /\ UNCHANGED consumerVars

(***************************************************************************)
(* StoreKeys (api.go:36-46): the caller's map goes to the database as is.  *)
(***************************************************************************)
StoreKeysBegin(entries) ==
    /\ pc = "idle"
    /\ ctx' = StoreKeysCtx(CallerCtx)
    /\ storeResults' = entries
    /\ pc' = "storekeys"
    /\ prev' = NoCall
    /\ UNCHANGED <<db, callerCancelled, callVars, retResults, retErr>>
    /\ UNCHANGED consumerVars

StoreKeysStored ==
    /\ pc = "storekeys"
    /\ ~CtxDone(ctx)
    /\ db' = DatabaseStoreKeys(db, storeResults)
    /\ retErr' = Nil
    /\ pc' = "stored"
    /\ UNCHANGED <<callerCancelled, ctx, callVars, storeResults, retResults, prev>>
    /\ UNCHANGED consumerVars

StoreKeysErr ==
    /\ pc = "storekeys"
    /\ retErr' = "store"
    /\ pc' = "stored"
    /\ UNCHANGED <<db, callerCancelled, ctx, callVars, storeResults, retResults, prev>>
    /\ UNCHANGED consumerVars

(***************************************************************************)
(* The caller: it takes the return values, and it may give up on a call in *)
(* progress at any point.                                                  *)
(***************************************************************************)
\* The call in progress left every request of its batch with a result that
\* is valid now and nothing pending, and none of its stores failed.
ResolvedAllValid ==
    /\ pc = "done"
    /\ retErr = Nil
    /\ requests = {}
    /\ \A i \in DOMAIN storeLog : ~storeLog[i].err
    /\ \A req \in origRequests : WasValidAt(retResults.entries[req], now, TRUE)

Returned ==
    /\ pc \in {"done", "stored"}
    /\ pc' = "idle"
    /\ callerCancelled' = FALSE
    /\ ctx' = Background
    /\ now' = 0
    /\ requests' = {}
    /\ origRequests' = {}
    /\ results' = EmptyMap
    /\ fetcherIdx' = 0
    /\ storeResults' = EmptyMap
    /\ fetchLog' = << >>
    /\ storeLog' = << >>
    /\ dbAsked' = {}
    /\ dbReturned' = DbNotAsked
    /\ retResults' = NilMap
    /\ retErr' = Nil
    /\ fetcherResults' = EmptyMap
    /\ UNCHANGED db
    /\ callerRequests' = {}
    /\ seenValidUntil' = EmptyMap
    /\ UNCHANGED consumerVars

Return == Returned /\ prev' = NoCall

\* The same, keeping in mind the call that returned.
ReturnRemember ==
    /\ Returned
    /\ prev' = IF ResolvedAllValid
               THEN [known |-> TRUE, batch |-> origRequests, now |-> now]
               ELSE NoCall

Cancel ==
    /\ pc \notin {"idle", "done", "stored"}
    /\ ~callerCancelled
    /\ callerCancelled' = TRUE
    /\ UNCHANGED <<db, pc, ctx, callVars, storeResults, retResults, retErr, prev>>
    /\ UNCHANGED consumerVars

(***************************************************************************)
(* The key change consumer (keychange.go).  Start is called once; from the *)
(* moment StartOffsets has returned, the messages of each partition are    *)
(* handed to onMessage one after the other, in the order of their offsets, *)
(* the partitions side by side.                                            *)
(***************************************************************************)
MaxOffset == 2

\* The partitions of the topic (msg.Partition, an int32).
Partitions == {0, 1}
Offsets == 0 .. MaxOffset
Users == {"@alice", "@bob"}

\* msg.Value: one that json.Unmarshal fails on, or the DeviceMessage of a user.
Values == {[decodes |-> FALSE, UserID |-> ""]} \cup [decodes : {TRUE}, UserID : Users]
Messages == [Partition : Partitions, Offset : Offsets, Value : Values]

\* What QuerySharedUsers returns: an error, or the users of UserIDsToCount.
QueryResponses ==
    {[err |-> TRUE, UserIDsToCount |-> {}]} \cup [err : {FALSE}, UserIDsToCount : SUBSET Users]

\* What StartOffsets returns: the offsets stored for some of the partitions.
StartOffsetMaps == Maps(Partitions, 0 .. MaxOffset - 1)

With(m, k, v) == Merge(m, [x \in {k} |-> v])
Without(m, k) == [x \in DOMAIN m \ {k} |-> m[x]]

\* The holders of partitionToOffsetMu.
Free == <<"free">>
HeldByStart == <<"Start">>
HeldByUpdateOffset(p) == <<"updateOffset", p>>

InitConsumer ==
    /\ partitionToOffset = EmptyMap
    /\ partitionToOffsetMu = Free
    /\ startPc = "init"
    /\ offsets = EmptyMap
    /\ startErr = FALSE
    /\ msgPc = [p \in Partitions |-> "idle"]
    /\ msg = EmptyMap
    /\ queryRes = EmptyMap
    /\ notified = EmptyMap
    /\ onMessageErr = EmptyMap
    /\ delivered = EmptyMap

(***************************************************************************)
(* Start (keychange.go:81-89).                                             *)
(***************************************************************************)
\* StartOffsets returns the stored offsets (keychange.go:82); the messages
\* that follow them are consumed from now on.
StartOffsets(offs) ==
    /\ startPc = "init"
    /\ offsets' = offs
    /\ delivered' = offs
    /\ startPc' = "lock"
    /\ UNCHANGED <<partitionToOffset, partitionToOffsetMu, startErr, msgPc, msg,
                   queryRes, notified, onMessageErr>>
    /\ UNCHANGED apiVars

\* StartOffsets fails: no offsets, nothing is consumed.
StartOffsetsErr ==
    /\ startPc = "init"
    /\ offsets' = EmptyMap
    /\ startErr' = TRUE
    /\ startPc' = "lock"
    /\ UNCHANGED <<partitionToOffset, partitionToOffsetMu, msgPc, msg, queryRes,
                   notified, onMessageErr, delivered>>
    /\ UNCHANGED apiVars

\* s.partitionToOffsetMu.Lock() (keychange.go:83).
StartLock ==
    /\ startPc = "lock"
    /\ partitionToOffsetMu = Free
    /\ partitionToOffsetMu' = HeldByStart
    /\ startPc' = "locked"
    /\ UNCHANGED <<partitionToOffset, offsets, startErr, msgPc, msg, queryRes,
                   notified, onMessageErr, delivered>>
    /\ UNCHANGED apiVars

\* The range over offsets, Unlock and return (keychange.go:84-88).
StartWrite ==
    /\ startPc = "locked"
    /\ partitionToOffset' = Merge(partitionToOffset, offsets)
    /\ partitionToOffsetMu' = Free
    /\ startPc' = "done"
    /\ UNCHANGED <<offsets, startErr, msgPc, msg, queryRes, notified, onMessageErr,
                   delivered>>
    /\ UNCHANGED apiVars

(***************************************************************************)
(* onMessage (keychange.go:97-127) and updateOffset (keychange.go:91-95).  *)
(***************************************************************************)
\* The call s.notifier.OnNewKeyChange(posUpdate, userID, output.UserID)
\* (keychange.go:117-124).
OnNewKeyChange(m, userID, changedUserID) ==
    [posUpdate |-> [Offset |-> m.Offset, Partition |-> m.Partition],
     wakeUserID |-> userID,
     keyChangeUserID |-> changedUserID]

\* The keys of queryRes.UserIDsToCount that the range runs over
\* (keychange.go:116, 123).
UserIDsAsReturned(sharedUsers, changedUserID) == sharedUsers
UserIDsToNotify(sharedUsers, changedUserID) == sharedUsers \cup {changedUserID}

\* Messages are consumed once StartOffsets has returned without error.
Consuming == startPc # "init" /\ ~startErr

\* onMessage up to its return statement: m is the next message of its
\* partition, q what QuerySharedUsers returns when called.
onMessage(m, q) ==
    LET p == m.Partition
        set(v, x) == With(v, p, x)
    IN  /\ Consuming
        /\ msgPc[p] = "idle"
        /\ p \in DOMAIN delivered => m.Offset > delivered[p]
        /\ msg' = set(msg, m)
        /\ delivered' = set(delivered, m.Offset)
        /\ IF ~m.Value.decodes
           THEN /\ q.err
                /\ queryRes' = queryRes
                /\ notified' = set(notified, EmptyBag)
                /\ onMessageErr' = set(onMessageErr, "decode")
           ELSE IF q.err
           THEN /\ queryRes' = set(queryRes, q)
                /\ notified' = set(notified, EmptyBag)
                /\ onMessageErr' = set(onMessageErr, "query")
           ELSE /\ queryRes' = set(queryRes, q)
                /\ notified' =
                       set(notified,
                           SetToBag({OnNewKeyChange(m, userID, m.Value.UserID) :
                                       userID \in UserIDsToNotify(q.UserIDsToCount,
                                                                  m.Value.UserID)}))
                /\ onMessageErr' = set(onMessageErr, Nil)
        /\ msgPc' = [msgPc EXCEPT ![p] = "update"]
        /\ UNCHANGED <<partitionToOffset, partitionToOffsetMu, startPc, offsets,
                       startErr>>
        /\ UNCHANGED apiVars

\* The deferred updateOffset: s.partitionToOffsetMu.Lock() (keychange.go:92).
updateOffsetLock(p) ==
    /\ msgPc[p] = "update"
    /\ partitionToOffsetMu = Free
    /\ partitionToOffsetMu' = HeldByUpdateOffset(p)
    /\ msgPc' = [msgPc EXCEPT ![p] = "locked"]
    /\ UNCHANGED <<partitionToOffset, startPc, offsets, startErr, msg, queryRes,
                   notified, onMessageErr, delivered>>
    /\ UNCHANGED apiVars

\* The write, the deferred Unlock, and the return of onMessage
\* (keychange.go:93-94).
updateOffset(p) ==
    /\ msgPc[p] = "locked"
    /\ partitionToOffset' = With(partitionToOffset, msg[p].Partition, msg[p].Offset)
    /\ partitionToOffsetMu' = Free
    /\ msgPc' = [msgPc EXCEPT ![p] = "idle"]
    /\ msg' = Without(msg, p)
    /\ queryRes' = Without(queryRes, p)
    /\ notified' = Without(notified, p)
    /\ onMessageErr' = Without(onMessageErr, p)
    /\ UNCHANGED <<startPc, offsets, startErr, delivered>>
    /\ UNCHANGED apiVars

Init ==
    /\ db = EmptyMap
    /\ pc = "idle"
    /\ callerCancelled = FALSE
    /\ ctx = Background
    /\ now = 0
    /\ requests = {}
    /\ origRequests = {}
    /\ results = EmptyMap
    /\ fetcherIdx = 0
    /\ storeResults = EmptyMap
    /\ fetchLog = << >>
    /\ storeLog = << >>
    /\ dbAsked = {}
    /\ dbReturned = DbNotAsked
    /\ retResults = NilMap
    /\ retErr = Nil
    /\ fetcherResults = EmptyMap
    /\ prev = NoCall
    /\ callerRequests = {}
    /\ seenValidUntil = EmptyMap
    /\ InitConsumer

\* One FetchKeys call, step by step.
FetchKeys ==
    \/ \E batch \in Batches, t \in StartTimes : FetchKeysBegin(batch, t)
    \/ \E t \in Times : t >= now /\ handleLocalKeys(t)
    \/ handleDatabaseKeysOk
    \/ handleDatabaseKeysErr
    \/ handleFetcherKeysFetchErr
    \/ \E fetched \in KeyMaps : handleFetcherKeysFetched(fetched)
    \/ handleFetcherKeysStored
    \/ handleFetcherKeysStoreErr
    \/ FetchKeysCheck

StoreKeys ==
    \/ \E entries \in KeyMaps : StoreKeysBegin(entries)
    \/ StoreKeysStored
    \/ StoreKeysErr

Next ==
    \/ FetchKeys
    \/ StoreKeys
    \/ Return

Spec == Init /\ [][Next]_vars

\* The same with a caller that may give up on the call in progress.
NextCancel == Next \/ Cancel

SpecCancel == Init /\ [][NextCancel]_vars

\* A sequence of FetchKeys calls, each keeping the one before it in mind.
NextRepeat == FetchKeys \/ ReturnRemember

SpecRepeat == Init /\ [][NextRepeat]_vars

\* The key change consumer: Start, and the messages of the partitions.
NextConsumer ==
    \/ \E offs \in StartOffsetMaps : StartOffsets(offs)
    \/ StartOffsetsErr
    \/ StartLock
    \/ StartWrite
    \/ \E m \in Messages, q \in QueryResponses : onMessage(m, q)
    \/ \E p \in Partitions : updateOffsetLock(p)
    \/ \E p \in Partitions : updateOffset(p)

SpecConsumer == Init /\ [][NextConsumer]_vars

(***************************************************************************)
(* Properties.                                                             *)
(***************************************************************************)
IsOwn(req) == req.ServerName = ServerName

\* The call in progress has come to its end through the check of api.go:91-108.
Checked == pc = "done" /\ dbReturned.status = "ok"

\* C1: once a store issued after a fetcher's results has failed, the call
\* has failed: it has returned the store error, and no fetcher after the
\* one whose results were being stored has been invoked.
C1_StoreFailureIsFatal ==
    \A i \in DOMAIN storeLog :
        storeLog[i].err =>
            /\ pc = "done"
            /\ retErr = "store"
            /\ \A j \in DOMAIN fetchLog : fetchLog[j].fetcher <= storeLog[i].fetcher

\* C2: within a call, an entry of results is replaced only by a result with
\* a strictly greater ValidUntilTS, so that the entry returned is the one
\* with the greatest ValidUntilTS, the earliest on ties.
C2_ReplacedOnlyByNewer ==
    [][pc' # "idle" =>
         \A req \in DOMAIN results :
             results'[req] # results[req] =>
                 results'[req].ValidUntilTS > results[req].ValidUntilTS]_vars

\* C2, amended: every stage that returns results writes each of them over
\* the entry results holds for its request, whatever their ValidUntilTS, no
\* other step changes results, and the call returns results as it then is:
\* the entry returned is the one returned last for its request.
C2_LatestResultKept ==
    [][/\ (pc = "database" /\ pc' = "fetchers") =>
              results' = Merge(results, dbReturned'.entries)
       /\ (pc = "fetchers" /\ pc' = "store") => results' = Merge(results, fetcherResults')
       /\ (pc \in {"fetchers", "store"} /\ pc' \in {"fetchers", "done"}) =>
              results' = results
       /\ (pc = "fetchers" /\ pc' = "done") => retResults' = MapOf(results)]_vars

\* A result with a smaller ValidUntilTS has taken the place of the one the
\* database returned.
C2_Witness ==
    /\ pc = "store"
    /\ \E req \in DOMAIN fetcherResults \cap DOMAIN dbReturned.entries :
           /\ fetcherResults[req].ValidUntilTS < dbReturned.entries[req].ValidUntilTS
           /\ results[req] = fetcherResults[req]

\* No request for the server's own key has gone to the database or to a
\* fetcher.
OwnNeverAsked ==
    /\ \A req \in dbAsked : ~IsOwn(req)
    /\ \A i \in DOMAIN fetchLog : \A req \in fetchLog[i].pending : ~IsOwn(req)

\* res is a result made from the server's own key at time t.
IsOwnResult(res, t) ==
    /\ res.Key = ServerPublicKey
    /\ res.ExpiredTS = PublicKeyNotExpired
    /\ res.ValidUntilTS = t + ServerKeyValidity

\* C3: a request for the server's own key goes neither to the database nor
\* to a fetcher, and the call returns for it the result made from the
\* server's own key, not expired, valid until now + ServerKeyValidity.
C3_OwnKeyReturned ==
    /\ OwnNeverAsked
    /\ pc = "done" =>
           \A req \in origRequests :
               IsOwn(req) =>
                   /\ ~retResults.isNil
                   /\ req \in DOMAIN retResults.entries
                   /\ IsOwnResult(retResults.entries[req], now)

C3_AfterLocalKeys ==
    /\ OwnNeverAsked
    /\ pc \in {"database", "fetchers", "store", "done"} =>
           \A req \in origRequests : IsOwn(req) => req \in DOMAIN results
    /\ pc = "database" =>
           \A req \in origRequests :
               IsOwn(req) => \E t \in now .. MaxClock : IsOwnResult(results[req], t)
    /\ Checked => retResults = MapOf(results)
    /\ (pc = "done" /\ ~Checked) => retResults = NilMap

C3_OwnKeyStep ==
    \A req \in DOMAIN results :
        (IsOwn(req) /\ pc' # "idle" /\ results'[req] # results[req]) =>
            /\ pc = "fetchers"
            /\ pc' = "store"
            /\ req \in DOMAIN fetcherResults'
            /\ results'[req] = fetcherResults'[req]

\* C3, amended: a request for the server's own key goes neither to the
\* database nor to a fetcher; handleLocalKeys puts into results the result
\* made from the server's own key, not expired, valid until the time it is
\* made (now or later) + ServerKeyValidity; that entry changes only when a
\* fetcher returns a result for the request, which takes its place; the
\* call returns results unless the database fetch failed, and nil then.
C3_OwnKeyAmended == []C3_AfterLocalKeys /\ [][C3_OwnKeyStep]_vars

C3_Witness ==
    /\ pc = "done"
    /\ ReqS \in origRequests
    /\ fetchLog # << >>
    /\ IsOwnResult(retResults.entries[ReqS], now + 1)

\* C4: no map handed to the database's StoreKeys, by FetchKeys or by
\* StoreKeys, holds an entry for the server's own name.
C4_NoOwnKeyStored ==
    pc \in {"store", "storekeys"} => \A req \in DOMAIN storeResults : ~IsOwn(req)

\* C4, amended: no map FetchKeys hands to the database's StoreKeys holds an
\* entry for the server's own name (StoreKeys hands on what it is given).
C4_NoOwnKeyStoredByFetchKeys ==
    pc = "store" => \A req \in DOMAIN storeResults : ~IsOwn(req)

C4_Witness ==
    /\ pc = "store"
    /\ ReqS \in DOMAIN fetcherResults
    /\ ReqA \in DOMAIN storeResults

\* C5: when the check finds a request of the batch without an entry in
\* results, the call returns an error together with results as it is; and
\* a call that returns no error returns an entry for every request of the
\* batch.
C5_Completeness ==
    /\ Checked =>
           /\ retResults = MapOf(results)
           /\ (\E req \in origRequests : req \notin DOMAIN results) => retErr # Nil
    /\ (pc = "done" /\ retErr = Nil) =>
           /\ ~retResults.isNil
           /\ \A req \in origRequests : req \in DOMAIN retResults.entries

C5_Witness ==
    /\ pc = "done"
    /\ retErr = "unsatisfied"
    /\ ReqB \in origRequests
    /\ DOMAIN retResults.entries = {ReqS, ReqA}

C6_AfterFetcherError ==
    \A i \in DOMAIN fetchLog :
        fetchLog[i].err =>
            /\ \A j \in DOMAIN storeLog : storeLog[j].fetcher # fetchLog[i].fetcher
            /\ i < Len(fetchLog) =>
                   /\ fetchLog[i + 1].fetcher = fetchLog[i].fetcher + 1
                   /\ fetchLog[i + 1].pending = fetchLog[i].pending
            /\ (i = Len(fetchLog) /\ fetchLog[i].fetcher < NumFetchers) =>
                   /\ pc = "fetchers"
                   /\ fetcherIdx = fetchLog[i].fetcher + 1
                   /\ requests = fetchLog[i].pending
                   /\ requests # {}
            /\ pc = "done" =>
                   /\ retResults = MapOf(results)
                   /\ retErr = Nil <=> \A req \in origRequests : req \in DOMAIN results

C6_FetcherErrorStep ==
    (Len(fetchLog') = Len(fetchLog) + 1 /\ fetchLog'[Len(fetchLog')].err) =>
        /\ requests' = requests
        /\ results' = results
        /\ db' = db
        /\ storeLog' = storeLog
        /\ pc' = "fetchers"
        /\ retErr' = retErr

\* C6: a fetcher that returns an error leaves requests and results as they
\* were and leads to no store; the call goes on, and its error is decided
\* by the final check alone; the next fetcher, if there is one, is invoked
\* with the requests the failed one was invoked with.
C6_FetcherErrorNotFatal == []C6_AfterFetcherError /\ [][C6_FetcherErrorStep]_vars

C6_Witness ==
    /\ Len(fetchLog) = 2
    /\ fetchLog[1].err
    /\ ~fetchLog[2].err
    /\ Cardinality(fetchLog[2].pending) = 2

\* C7: a request the database returned a result for that is valid now is in
\* the requests of no fetcher invoked afterwards; a request the database was
\* asked for and returned nothing for, or a result not valid now, is in the
\* requests of the first fetcher invoked.
C7_DatabaseValidNotFetched ==
    \A i \in DOMAIN fetchLog :
        \A req \in dbAsked :
            IF /\ req \in DOMAIN dbReturned.entries
               /\ WasValidAt(dbReturned.entries[req], now, TRUE)
            THEN req \notin fetchLog[i].pending
            ELSE req \in fetchLog[1].pending

C7_Witness ==
    /\ fetchLog # << >>
    /\ dbAsked = {ReqA, ReqB}
    /\ DOMAIN dbReturned.entries = {ReqA, ReqB}
    /\ WasValidAt(dbReturned.entries[ReqA], now, TRUE)
    /\ ~WasValidAt(dbReturned.entries[ReqB], now, TRUE)

\* C8: when the database fetch has failed, the call has returned that error
\* and no results, and has invoked no fetcher and no store.
C8_DatabaseErrorFatal ==
    dbReturned = DbError =>
        /\ pc = "done"
        /\ retErr = "database"
        /\ retResults = NilMap
        /\ fetchLog = << >>
        /\ storeLog = << >>

C8_Witness ==
    /\ dbReturned = DbError
    /\ dbAsked # {}
    /\ ReqS \in DOMAIN results

\* C9: a call for the batch of the call before it, with the same now, that
\* call having left every request valid now, invokes no fetcher and no
\* store.
C9_RepeatedCallIsIdle ==
    (/\ prev.known
     /\ pc \in {"fetchers", "store", "done"}
     /\ origRequests = prev.batch
     /\ now = prev.now) =>
        /\ fetchLog = << >>
        /\ storeLog = << >>

\* C10: every store, of FetchKeys and of StoreKeys, runs under a context
\* that the caller's cancellation does not reach, so that it can still
\* succeed once the caller has given up.
C10_StoreDetached ==
    /\ pc \in {"store", "storekeys"} => (ctx = Background /\ ~CtxDone(ctx))
    /\ pc = "store" => ENABLED handleFetcherKeysStored
    /\ pc = "storekeys" => ENABLED StoreKeysStored

C10_Witness ==
    /\ pc = "store"
    /\ callerCancelled
    /\ DOMAIN storeResults # {}

\* A FetchKeys call is in progress or has returned.
InFetchKeys == pc \in {"local", "database", "fetchers", "store", "done"}

\* C11: FetchKeys works on a copy of the map the caller handed in: all
\* through the call and after it has returned, the caller's map holds the
\* requests it held when it was handed in.
C11_CallersMapUntouched == InFetchKeys => callerRequests = origRequests

\* C11, amended: FetchKeys works on the caller's map itself: all through the
\* call and after it has returned, the caller's map holds the requests still
\* pending, which are requests of the batch handed in and, once
\* handleLocalKeys has run, none for this server's own name.
C11_CallersMapIsPending ==
    InFetchKeys =>
        /\ callerRequests = requests
        /\ callerRequests \subseteq origRequests
        /\ pc # "local" => \A req \in callerRequests : ~IsOwn(req)

\* A call has returned without error and has left the caller's map, handed in
\* with a request for this server's own name and requests for another, empty.
C11_Witness ==
    /\ pc = "done"
    /\ retErr = Nil
    /\ origRequests = Requests
    /\ callerRequests = {}

\* A stage of the call in progress has just finished: handleLocalKeys,
\* handleDatabaseKeys, or the handleFetcherKeys of one fetcher.
StageBoundary == pc \in {"database", "fetchers"} \/ Checked

ValidNow(res, req) == req \in DOMAIN res /\ WasValidAt(res[req], now, TRUE)

\* C12: at every stage boundary, whatever the database and the fetchers
\* have returned, a request of the batch is no longer pending if and only if
\* the entry results holds for it is valid now.
C12_PendingIffNotValid ==
    StageBoundary =>
        \A req \in origRequests : req \notin requests <=> ValidNow(results, req)

\* The step writes for req a result that is valid now.
C12_WritesValid(req) ==
    \/ pc = "database" /\ pc' = "fetchers" /\ ValidNow(dbReturned'.entries, req)
    \/ pc = "fetchers" /\ pc' = "store" /\ ValidNow(fetcherResults', req)

C12_AtBoundary ==
    StageBoundary =>
        \A req \in origRequests :
            /\ ValidNow(results, req) => req \notin requests
            /\ req \notin requests => req \in DOMAIN results

C12_LeavesPendingStep ==
    pc \in {"local", "database", "fetchers"} /\ pc' # "idle" =>
        \A req \in requests :
            req \notin requests' <=>
                IF pc = "local" THEN IsOwn(req) ELSE C12_WritesValid(req)

\* C12, amended: at every stage boundary a request of the batch whose entry
\* in results is valid now is no longer pending, and a request that is no
\* longer pending has an entry; a request stops being pending exactly in
\* the step of handleLocalKeys, when it is for this server's own name, or in
\* a step in which the database or a fetcher returns for it a result that is
\* valid now.  (Its entry may be replaced afterwards by a result that is not
\* valid; the request does not become pending again.)
C12_PendingUntilValidReturned == []C12_AtBoundary /\ [][C12_LeavesPendingStep]_vars

\* The call has come to its check with a request of the batch that is no
\* longer pending and whose entry, replaced by a later fetcher, is not valid.
C12_Witness ==
    /\ Checked
    /\ \E req \in origRequests : req \notin requests /\ ~ValidNow(results, req)

\* The step in which a fetcher's results are worked in and storeResults is
\* put together.
FetchedStep == pc = "fetchers" /\ pc' = "store"

\* C13: every entry of every storeResults is strictly newer than anything
\* known before for its request in the call: its ValidUntilTS is strictly
\* greater than that of every result the database and the earlier fetchers
\* returned for the request, or they returned none.
C13_StoredNewerThanAllSeen ==
    [][FetchedStep =>
         \A req \in DOMAIN storeResults' :
             req \in DOMAIN seenValidUntil =>
                 storeResults'[req].ValidUntilTS > seenValidUntil[req]]_vars

\* C13, amended: every entry of every storeResults has a ValidUntilTS
\* strictly greater than that of the entry results held for its request when
\* the fetcher returned, which is the result returned last for it, or
\* results held none.
C13_StoredNewerThanEntry ==
    [][FetchedStep =>
         \A req \in DOMAIN storeResults' :
             req \in DOMAIN results =>
                 storeResults'[req].ValidUntilTS > results[req].ValidUntilTS]_vars

\* A fetcher's result goes to the database in place of the result the
\* database returned for the same request.
C13_Witness ==
    /\ pc = "store"
    /\ \E req \in DOMAIN storeResults \cap DOMAIN dbReturned.entries :
           storeResults[req].ValidUntilTS > dbReturned.entries[req].ValidUntilTS

\* The fetcher invocations so far are those of fetchers 1, 2, ... in this
\* order, each made with requests pending and after the database fetch had
\* returned, and each but the last with its stage finished: it failed, or
\* its store has been issued.
C14_InvocationsInOrder ==
    /\ Len(fetchLog) <= NumFetchers
    /\ fetchLog # << >> => dbReturned.status = "ok"
    /\ \A i \in DOMAIN fetchLog :
           /\ fetchLog[i].fetcher = i
           /\ fetchLog[i].pending # {}
           /\ i < Len(fetchLog) =>
                  \/ fetchLog[i].err
                  \/ \E j \in DOMAIN storeLog : storeLog[j].fetcher = i
    /\ pc = "store" => fetcherIdx = Len(fetchLog) /\ ~fetchLog[fetcherIdx].err

\* Within a call, what the database fetch returned stays what it is, and no
\* fetcher is invoked with nothing pending or before it has returned.
C14_InvocationStep ==
    pc' # "idle" =>
        /\ dbReturned.status # "none" => dbReturned' = dbReturned /\ dbAsked' = dbAsked
        /\ fetchLog' # fetchLog =>
               /\ requests # {}
               /\ dbReturned.status = "ok"
               /\ Len(fetchLog') = Len(fetchLog) + 1

\* C14: the fetchers are invoked in the configured order, each at most once
\* and only after the one database fetch of the call; a fetcher is invoked
\* only after the stage of the fetcher before it has finished, and none is
\* invoked once nothing is pending.
C14_FetchersInOrder == []C14_InvocationsInOrder /\ [][C14_InvocationStep]_vars

\* The call has come to its check after two fetchers, the first of which
\* returned results that were stored, with nothing pending.
C14_Witness ==
    /\ Checked
    /\ Len(fetchLog) >= 2
    /\ ~fetchLog[1].err
    /\ requests = {}

\* The store calls so far are those of the fetchers that returned results,
\* one for each and in their order, but for a fetcher whose store is still to
\* be issued; there is none before the first fetcher has returned.
C15_StoresSoFar ==
    /\ \A j \in DOMAIN storeLog :
           /\ \E i \in DOMAIN fetchLog :
                  fetchLog[i].fetcher = storeLog[j].fetcher /\ ~fetchLog[i].err
           /\ \A k \in DOMAIN storeLog :
                  j < k => storeLog[j].fetcher < storeLog[k].fetcher
    /\ \A i \in DOMAIN fetchLog :
           ~fetchLog[i].err /\ ~(pc = "store" /\ i = Len(fetchLog)) =>
               \E j \in DOMAIN storeLog : storeLog[j].fetcher = fetchLog[i].fetcher
    /\ pc \in {"local", "database"} => storeLog = << >>

\* The entries of fetched that are not for this server's own name and for
\* which res has no entry, or one with a lower ValidUntilTS.
C15_Staged(res, fetched) ==
    {req \in DOMAIN fetched :
        /\ ~IsOwn(req)
        /\ \/ req \notin DOMAIN res
           \/ fetched[req].ValidUntilTS > res[req].ValidUntilTS}

C15_StoreStep ==
    /\ FetchedStep =>
           /\ DOMAIN storeResults' = C15_Staged(results, fetcherResults')
           /\ \A req \in DOMAIN storeResults' : storeResults'[req] = fetcherResults'[req]
    /\ InFetchKeys /\ storeLog' # storeLog /\ pc' # "idle" =>
           /\ pc = "store"
           /\ fetchLog' = fetchLog
           /\ storeLog' = Append(storeLog, storeLog'[Len(storeLog')])
           /\ storeLog'[Len(storeLog')].fetcher = fetcherIdx
           /\ ~storeLog'[Len(storeLog')].err =>
                  /\ DOMAIN db' = DOMAIN db \cup DOMAIN storeResults
                  /\ \A req \in DOMAIN db' :
                         db'[req] = IF req \in DOMAIN storeResults
                                    THEN storeResults[req] ELSE db[req]
    /\ InFetchKeys /\ storeLog' = storeLog => db' = db

\* C15: for every fetcher that returns results there is exactly one store,
\* issued after all its results have been worked in and before the next
\* fetcher is invoked, of exactly those of its results that are not for this
\* server's own name and for which results had no entry or one with a
\* strictly lower ValidUntilTS; handleLocalKeys, handleDatabaseKeys and a
\* fetcher that fails issue no store.
C15_OneStorePerFetcher == []C15_StoresSoFar /\ [][C15_StoreStep]_vars

\* A fetcher has returned a result for this server's own name, one that
\* replaces what the database returned, and one that is left out, and its
\* store is about to be issued.
C15_Witness ==
    /\ pc = "store"
    /\ ReqS \in DOMAIN fetcherResults
    /\ \E req \in DOMAIN storeResults : req \in DOMAIN dbReturned.entries
    /\ \E req \in DOMAIN fetcherResults \ DOMAIN storeResults : ~IsOwn(req)

\* The database fetch or a fetcher is about to be called.
AboutToFetch == pc = "database" \/ (pc = "fetchers" /\ FetcherLoopGoesOn)

\* C16: the database fetch runs under the caller's context and every
\* fetcher under a context derived from it: once the caller has cancelled,
\* the context they are called with is a cancelled one.
C16_FetchesUnderCallersCtx ==
    AboutToFetch /\ callerCancelled =>
        /\ CtxDone(ctx)
        /\ CtxDone(FetcherCtx(ctx))

\* C16, amended: the database fetch runs under context.Background() and
\* every fetcher under a context derived from that: whether or not the
\* caller has cancelled, the context they are called with is not a
\* cancelled one, and they can return results.
C16_FetchesDetached ==
    /\ AboutToFetch => ctx = Background /\ ~CtxDone(ctx) /\ ~CtxDone(FetcherCtx(ctx))
    /\ pc = "database" => ENABLED handleDatabaseKeysOk
    /\ pc = "fetchers" /\ FetcherLoopGoesOn => ENABLED handleFetcherKeysFetched(EmptyMap)

\* The caller has given up, the database fetch has returned all the same,
\* and a fetcher is about to be called.
C16_Witness ==
    /\ callerCancelled
    /\ pc = "fetchers"
    /\ FetcherLoopGoesOn
    /\ dbReturned.status = "ok"

\* C17: in every step of a call the requests pending are among those
\* pending before the step and among those of the batch handed in, and
\* every request that results has an entry for keeps having one.
C17_Monotonic ==
    [][pc # "idle" /\ pc' # "idle" =>
         /\ requests' \subseteq requests
         /\ requests' \subseteq origRequests
         /\ DOMAIN results \subseteq DOMAIN results']_vars

\* The call has come to its check with nothing pending, after the self-key
\* stage and a first and a second fetcher each took requests off the pending
\* set and added entries to results.
C17_Witness ==
    /\ Checked
    /\ origRequests = Requests
    /\ requests = {}
    /\ DOMAIN results = Requests
    /\ Len(fetchLog) >= 2
    /\ fetchLog[1].pending = {ReqA, ReqB}
    /\ fetchLog[2].pending # fetchLog[1].pending

\* C18: over any sequence of FetchKeys calls, a store issued after a
\* fetcher's results never replaces a key the database holds by an older
\* one: the ValidUntilTS of the database's entry for a request never
\* decreases in such a store.
C18_DatabaseNeverOlder ==
    [][pc = "store" =>
         \A req \in DOMAIN db :
             db'[req].ValidUntilTS >= db[req].ValidUntilTS]_vars

\* The onMessage call of partition p decoded its message and its
\* QuerySharedUsers call returned without error.
Queried(p) == msg[p].Value.decodes /\ p \in DOMAIN queryRes /\ ~queryRes[p].err

\* C19: when its message decodes and the shared users query succeeds,
\* onMessage calls OnNewKeyChange exactly once for every user the query
\* returned and exactly once for the user whose key changed, also when the
\* query did not return that user, and for nobody else, every call with the
\* offset and partition of the message, the user to notify, and the user
\* whose key changed; it returns nil.  When the message does not decode or
\* the query fails it calls OnNewKeyChange not at all and returns the error.
C19_FanOut ==
    \A p \in DOMAIN msg :
        IF Queried(p)
        THEN /\ onMessageErr[p] = Nil
             /\ \A userID \in Users :
                    CopiesIn([posUpdate |-> [Offset |-> msg[p].Offset, Partition |-> p],
                              wakeUserID |-> userID,
                              keyChangeUserID |-> msg[p].Value.UserID],
                             notified[p])
                      = IF \/ userID \in queryRes[p].UserIDsToCount
                           \/ userID = msg[p].Value.UserID
                        THEN 1 ELSE 0
             /\ \A n \in BagToSet(notified[p]) :
                    /\ n.posUpdate = [Offset |-> msg[p].Offset, Partition |-> p]
                    /\ n.keyChangeUserID = msg[p].Value.UserID
                    /\ n.wakeUserID \in Users
        ELSE /\ notified[p] = EmptyBag
             /\ onMessageErr[p] \in {"decode", "query"}
             /\ onMessageErr[p] = "decode" <=> ~msg[p].Value.decodes

\* An onMessage call has notified the user whose key changed and another
\* one, the query having returned only the other one.
C19_Witness ==
    \E p \in DOMAIN msg :
        /\ Queried(p)
        /\ queryRes[p].UserIDsToCount # {}
        /\ msg[p].Value.UserID \notin queryRes[p].UserIDsToCount
        /\ BagCardinality(notified[p]) = 2

\* The step in which onMessage returns for the message of partition p leaves
\* the offset of p at that of the message, and those of the other
\* partitions as they were.
C20_ReturnStep ==
    \A p \in Partitions :
        msgPc[p] = "locked" /\ msgPc'[p] = "idle" =>
            /\ p \in DOMAIN partitionToOffset'
            /\ partitionToOffset'[p] = msg[p].Offset
            /\ Without(partitionToOffset', p) = Without(partitionToOffset, p)

\* partitionToOffset is written by the holder of the mutex only, and what is
\* written for a partition is its start offset or the offset of a message
\* of the partition that onMessage is returning for.
C20_WriteStep ==
    \A p \in DOMAIN partitionToOffset' :
        (p \in DOMAIN partitionToOffset => partitionToOffset'[p] # partitionToOffset[p]) =>
            \/ /\ partitionToOffsetMu = HeldByStart
               /\ p \in DOMAIN offsets
               /\ partitionToOffset'[p] = offsets[p]
            \/ /\ partitionToOffsetMu = HeldByUpdateOffset(p)
               /\ partitionToOffset'[p] = msg[p].Offset

C20_NeverDecreases ==
    \A p \in DOMAIN partitionToOffset :
        /\ p \in DOMAIN partitionToOffset'
        /\ partitionToOffset'[p] >= partitionToOffset[p]

\* C20: when onMessage returns for a message, with or without error, the
\* offset tracked for the partition of the message is the offset of the
\* message and those of the other partitions are as before; the offsets are
\* written under the mutex only, so that, however the onMessage calls and
\* Start interleave, the offset tracked for a partition is its start offset
\* or the offset of a message processed on it, and, the messages of a
\* partition coming in the order of their offsets, it never decreases.
C20_OffsetTracking ==
    [][C20_ReturnStep /\ C20_WriteStep /\ C20_NeverDecreases]_vars

\* The parts of it that concern the return of onMessage and the writes.
C20_ReturnAndWrite == [][C20_ReturnStep /\ C20_WriteStep]_vars

====
